---- MODULE Spec2Model ----
(***************************************************************************)
(* The LookingGlass tool layer of zen-mcp-server (src/src/looking_glass.py) *)
(* as a state machine: one action per tool, each the whole handler from    *)
(* input validation to the value returned or the error raised, against a   *)
(* backend whose answer is chosen nondeterministically.                     *)
(***************************************************************************)
EXTENDS Integers, Sequences, FiniteSets, TLC

VARIABLES pc, tool, args, resp, sent, returned, raised, escaped

\* Concurrent invocations: the backend's fixed answer to every request, the
\* frame of each invocation in progress, the requests and replies in flight,
\* and the number of records written through the module-level logger slog.
VARIABLES backend, calls, requests, replies, logged

seqVars == <<pc, tool, args, resp, sent, returned, raised, escaped>>

concVars == <<backend, calls, requests, replies, logged>>

vars == <<pc, tool, args, resp, sent, returned, raised, escaped,
          backend, calls, requests, replies, logged>>

\* ------------------------------------------------------------------ bounds
\* Caller strings for the city codes: every string of up to CodeLen + MaxExtra
\* characters, and every three-letter code followed by a newline.
MaxExtra == 0
\* Free-form caller strings (city, datacenter, target, city name) have up to
\* MaxFree characters.
MaxFree == 1
\* A backend sequence carries up to MaxItems items.
MaxItems == 2
\* Up to NumCalls invocations are in progress at once.
NumCalls == 2
\* The log is followed up to MaxLog records; further records leave it there.
MaxLog == 2

\* --------------------------------------------------------------- strings
\* A Python str is a sequence of one-character strings.
CodeLen == 3

Letters == {"a", "A", "b"}

Chars == Letters \cup {"\n"}

StrsUpTo(n) == UNION {[1..k -> Chars] : k \in 0..n}

CityStrs ==
    StrsUpTo(CodeLen + MaxExtra) \cup {c \o <<"\n">> : c \in [1..CodeLen -> Letters]}

\* The free-form parameters take any text: a letter, and the characters
\* that delimit the parts of a URL.
FreeChars == {"a", "&", "=", "#", "?", " "}

FreeStrs == UNION {[1..k -> FreeChars] : k \in 0..MaxFree}

\* str.upper() on one character and on a string.
UpperChar(c) == CASE c = "a" -> "A" [] c = "b" -> "B" [] OTHER -> c

Upper(s) == [i \in 1..Len(s) |-> UpperChar(s[i])]

\* re.match(r'^[A-Za-z]{3}$', s): three letters from position 0, then '$',
\* which in Python matches at the end of the string and also just before a
\* newline that ends the string.
ReMatchCode(s) ==
    /\ Len(s) >= CodeLen
    /\ \A i \in 1..CodeLen : s[i] \in Letters
    /\ \/ Len(s) = CodeLen
       \/ Len(s) = CodeLen + 1 /\ s[CodeLen + 1] = "\n"

\* ------------------------------------------------------------------ JSON
JStr(s) == [t |-> "str", s |-> s]
JNum(n) == [t |-> "num", n |-> n]
JNull == [t |-> "null"]
JObj(f) == [t |-> "obj", f |-> f]
JArr(xs) == [t |-> "arr", xs |-> xs]
\* A response body that is not JSON.
NonJson == [t |-> "nonjson"]

\* Python truthiness of a decoded JSON value (`not res_json`).
Falsy(j) ==
    CASE j.t = "null" -> TRUE
      [] j.t = "obj" -> DOMAIN j.f = {}
      [] j.t = "arr" -> j.xs = <<>>
      [] j.t = "str" -> j.s = ""
      [] j.t = "num" -> j.n = 0
      [] OTHER -> FALSE

\* ------------------------------------------------------------ exceptions
\* The value of a step of a try body: a value, or an exception raised.
Ok(v) == [ok |-> TRUE, val |-> v]
Raise(e) == [ok |-> FALSE, exc |-> e]

Exc(cls) == [cls |-> cls, code |-> <<>>]
HTTPStatusError(code) == [cls |-> "HTTPStatusError", code |-> <<code>>]

\* ToolError(message): kind names the message template of the raise site,
\* codes and args are the values interpolated into it, detail is str(e).
ToolError(kind, msg, codes, strs, detail) ==
    [kind |-> kind, msg |-> msg, codes |-> codes, strs |-> strs, detail |-> detail]

\* Every exception class that occurs here derives from Exception.
ExceptionClasses ==
    {"HTTPStatusError", "RequestError", "ValidationError", "KeyError",
     "TypeError", "JSONDecodeError", "InvalidURL", "ToolError"}

\* What one invocation leaves behind: the requests it issued, the value it
\* returned, the ToolError it raised, any other exception that escaped it.
Returned(s, v) == [sent |-> s, returned |-> <<v>>, raised |-> <<>>, escaped |-> <<>>]
RaisedErr(s, te) == [sent |-> s, returned |-> <<>>, raised |-> <<te>>, escaped |-> <<>>]
Escaped(s, e) == [sent |-> s, returned |-> <<>>, raised |-> <<>>, escaped |-> <<e>>]

\* ------------------------------------------------------------------ HTTP
\* What the backend does with a request: the exchange fails, or it answers
\* with a status and a body. NoResp: the backend was never asked.
TransportFail == [net |-> "fail"]
Http(status, body) == [net |-> "ok", status |-> status, body |-> body]
NoResp == [net |-> "none"]

OkStatuses == {200, 201}
ErrStatuses == {301, 400, 404, 500}

Responses(bodies, errBodies) ==
    {TransportFail}
        \cup {Http(st, b) : st \in OkStatuses, b \in bodies}
        \cup {Http(st, b) : st \in ErrStatuses, b \in errBodies}

\* The f-string of a URL: literal text (the endpoint, a parameter name) as
\* one token, its delimiters '?', '&' and '=' and the interpolated caller
\* strings character by character, nothing encoded.
Lit(text) == <<text>>

\* The literal "?name=" or "&name=" that precedes an interpolated value.
QueryLit(delim, name) == <<delim>> \o Lit(name) \o <<"=">>

HasControl(s) == \E i \in 1..Len(s) : s[i] = "\n"

\* httpx's URL parser either rejects a control character in the URL
\* (InvalidURL, raised before anything is sent) or lets it through,
\* depending on the httpx version installed.
UrlChoices(url) == IF HasControl(url) THEN BOOLEAN ELSE {TRUE}

\* The backend answers only when it is asked.
Answers(probe, responses) == IF probe.sent = <<>> THEN {NoResp} ELSE responses

\* httpx.get(url) as it would be with one retry after a failed exchange.
HttpxGetRetry(url, r, urlOk) ==
    IF ~urlOk THEN [sent |-> <<>>, res |-> Raise(Exc("InvalidURL"))]
    ELSE IF r.net # "ok" THEN [sent |-> <<url, url>>, res |-> Raise(Exc("RequestError"))]
    ELSE [sent |-> <<url>>, res |-> Ok(r)]

\* httpx.get(url): one GET, redirects not followed, no retry.
HttpxGet(url, r, urlOk) ==
    IF ~urlOk THEN [sent |-> <<>>, res |-> Raise(Exc("InvalidURL"))]
    ELSE IF r.net # "ok" THEN [sent |-> <<url>>, res |-> Raise(Exc("RequestError"))]
    ELSE [sent |-> <<url>>, res |-> Ok(r)]

\* response.raise_for_status(): HTTPStatusError unless the status is 2xx.
RaiseForStatus(r) ==
    IF r.status >= 200 /\ r.status <= 299 THEN Ok(r)
    ELSE Raise(HTTPStatusError(r.status))

\* response.json()
ResponseJson(r) ==
    IF r.body.t = "nonjson" THEN Raise(Exc("JSONDecodeError")) ELSE Ok(r.body)

\* The three lines every tool starts its try body with:
\*   response = httpx.get(url); response.raise_for_status(); response.json()
Fetch(url, r, urlOk) ==
    LET g == HttpxGet(url, r, urlOk) IN
    IF ~g.res.ok THEN g
    ELSE LET st == RaiseForStatus(g.res.val) IN
         IF ~st.ok THEN [sent |-> g.sent, res |-> st]
         ELSE [sent |-> g.sent, res |-> ResponseJson(st.val)]

\* ------------------------------------------- the request on the wire
\* The position of the first element of s that is in S, 0 if there is none.
FirstIn(s, S) ==
    IF \E i \in 1..Len(s) : s[i] \in S
    THEN CHOOSE i \in 1..Len(s) : s[i] \in S /\ \A j \in 1..(i - 1) : s[j] \notin S
    ELSE 0

\* httpx parses the URL string it is given: the fragment starts at the
\* first '#' and is never sent.
DropFragment(url) ==
    LET h == FirstIn(url, {"#"}) IN IF h = 0 THEN url ELSE SubSeq(url, 1, h - 1)

\* The path (with scheme and host) ends at the first '?'.
UrlPath(url) ==
    LET u == DropFragment(url)
        q == FirstIn(u, {"?"})
    IN  IF q = 0 THEN u ELSE SubSeq(u, 1, q - 1)

\* The query string is what follows the first '?'. httpx leaves '&', '=' and
\* '?' in it as they are and percent-encodes a space.
UrlQuery(url) ==
    LET u == DropFragment(url)
        q == FirstIn(u, {"?"})
        raw == IF q = 0 THEN <<>> ELSE SubSeq(u, q + 1, Len(u))
    IN  [i \in 1..Len(raw) |-> IF raw[i] = " " THEN "%20" ELSE raw[i]]

\* str.split(sep) on a token sequence.
RECURSIVE Split(_, _)
Split(s, sep) ==
    LET i == FirstIn(s, {sep}) IN
    IF i = 0 THEN <<s>>
    ELSE <<SubSeq(s, 1, i - 1)>> \o Split(SubSeq(s, i + 1, Len(s)), sep)

\* urllib's unquote of what httpx quoted.
Unquote(s) == [i \in 1..Len(s) |-> IF s[i] = "%20" THEN " " ELSE s[i]]

\* The backend framework's reading of a query string (parse_qsl with blank
\* values kept): fields separated by '&', empty fields skipped, each split
\* at its first '=' into a name and a value, both unquoted.
ParseQsl(q) ==
    LET fields == Split(q, "&")
        Field(f) ==
            LET e == FirstIn(f, {"="}) IN
            IF e = 0 THEN <<Unquote(f), <<>>>>
            ELSE <<Unquote(SubSeq(f, 1, e - 1)), Unquote(SubSeq(f, e + 1, Len(f)))>>
    IN  {Field(fields[i]) : i \in {j \in 1..Len(fields) : fields[j] # <<>>}}

\* The request an endpoint of the backend receives: its path and the
\* (name, value) pairs of its query.
RequestSeen(url) == [path |-> UrlPath(url), params |-> ParseQsl(UrlQuery(url))]

\* -------------------------------------------------------------- pydantic
\* Does a JSON value pass pydantic's validation for a field of this type?
Conforms(type, j) ==
    CASE type = "str" -> j.t = "str"
      [] type = "float" -> j.t = "num"
      [] type = "explore_type" -> j.t = "str" /\ j.s \in {"ping", "mtr", "bgp"}
      [] OTHER -> FALSE

\* The attribute a validated JSON value becomes: a Python str or float.
Typed(type, j) ==
    IF type = "float" THEN [ty |-> "float", n |-> j.n] ELSE [ty |-> "str", s |-> j.s]

\* Model(**kw) for a BaseModel whose fields are DOMAIN types: every field
\* must be present and valid, other keys are ignored.
Construct(types, kw) ==
    IF \E k \in DOMAIN types : k \notin DOMAIN kw \/ ~Conforms(types[k], kw[k])
    THEN Raise(Exc("ValidationError"))
    ELSE Ok([k \in DOMAIN types |-> Typed(types[k], kw[k])])

\* res_json[k] for a string key k.
Subscript(j, k) ==
    IF j.t # "obj" THEN Raise(Exc("TypeError"))
    ELSE IF k \notin DOMAIN j.f THEN Raise(Exc("KeyError"))
    ELSE Ok(j.f[k])

\* The keyword arguments {field: res_json[key[field]]}, evaluated before the
\* model is constructed: the first failing subscript raises.
Subscripts(j, key) ==
    IF j.t # "obj" THEN Raise(Exc("TypeError"))
    ELSE IF \E fld \in DOMAIN key : ~Subscript(j, key[fld]).ok THEN Raise(Exc("KeyError"))
    ELSE Ok([fld \in DOMAIN key |-> j.f[key[fld]]])

\* ------------------------------------------------------- get_city_delay
CityDelayModel ==
    [from_city |-> "str", to_city |-> "str",
     private_line_delay |-> "str", public_network_delay |-> "str"]

DelayUrl(from_city, to_city) ==
    Lit("http://localhost:8000/looking-glass/city/delay")
        \o QueryLit("?", "from_city") \o from_city
        \o QueryLit("&", "to_city") \o to_city

\* The try body of get_city_delay.
DelayTry(from_city, to_city, r, urlOk) ==
    LET f == Fetch(DelayUrl(from_city, to_city), r, urlOk) IN
    IF ~f.res.ok THEN f
    ELSE LET kw == Subscripts(f.res.val, [k \in DOMAIN CityDelayModel |-> k]) IN
         IF ~kw.ok THEN [sent |-> f.sent, res |-> kw]
         ELSE [sent |-> f.sent, res |-> Construct(CityDelayModel, kw.val)]

\* The except clauses of get_city_delay as they would be with the catch-all
\* `except Exception` written first.
DelayExceptCatchAll(s, e, from_city, to_city) ==
    IF e.cls \in ExceptionClasses THEN
        RaisedErr(s, ToolError("Unexpected", "Unexpected error occurred:", <<>>, <<>>, <<e>>))
    ELSE Escaped(s, e)

\* The except clauses of get_city_delay, in their order.
DelayExcept(s, e, from_city, to_city) ==
    IF e.cls = "HTTPStatusError" THEN
        IF e.code[1] = 404 THEN
            RaisedErr(s, ToolError("NotFound", "Route not found between",
                                   <<>>, <<from_city, to_city>>, <<>>))
        ELSE IF e.code[1] = 400 THEN
            RaisedErr(s, ToolError("BadRequest", "Invalid request. Please verify city codes",
                                   <<>>, <<from_city, to_city>>, <<>>))
        ELSE
            RaisedErr(s, ToolError("ServiceError", "HTTP error: Failed to query latency between",
                                   e.code, <<from_city, to_city>>, <<>>))
    ELSE IF e.cls = "RequestError" THEN
        RaisedErr(s, ToolError("TransportError", "Connection error: Could not reach latency service.",
                               <<>>, <<>>, <<e>>))
    ELSE IF e.cls = "ValidationError" THEN
        RaisedErr(s, ToolError("ShapeError", "Invalid response format.", <<>>, <<>>, <<e>>))
    ELSE IF e.cls \in ExceptionClasses THEN
        RaisedErr(s, ToolError("Unexpected", "Unexpected error occurred:", <<>>, <<>>, <<e>>))
    ELSE Escaped(s, e)

\* The two checks before the try block.
DelayValidate(from_city, to_city) ==
    IF ~ReMatchCode(from_city) \/ ~ReMatchCode(to_city) THEN
        <<ToolError("InvalidInput", "Invalid city code", <<>>, <<>>, <<>>)>>
    ELSE IF from_city = to_city THEN
        <<ToolError("InvalidInput", "You have provided one city.", <<>>, <<>>, <<>>)>>
    ELSE <<>>

get_city_delay(from_city, to_city, r, urlOk) ==
    LET bad == DelayValidate(from_city, to_city) IN
    IF bad # <<>> THEN RaisedErr(<<>>, bad[1])
    ELSE LET b == DelayTry(from_city, to_city, r, urlOk) IN
         IF b.res.ok THEN Returned(b.sent, b.res.val)
         ELSE DelayExcept(b.sent, b.res.exc, from_city, to_city)

\* Backend bodies for /city/delay: objects with any subset of the four keys,
\* each value a string or a number, and bodies that are no object at all.
DelayKeys == DOMAIN CityDelayModel

DelayText ==
    [from_city |-> "HKG", to_city |-> "NYC",
     private_line_delay |-> "120ms", public_network_delay |-> "no data provide"]

DelayFull == JObj([k \in DelayKeys |-> JStr(DelayText[k])])

DelayObjs ==
    {JObj([k \in S |-> JStr(DelayText[k])]) : S \in SUBSET DelayKeys}
        \cup {JObj([k \in DelayKeys |-> IF k = n THEN JNum(7) ELSE JStr(DelayText[k])]) :
                  n \in DelayKeys}

OtherBodies == {NonJson, JNull, JArr(<<>>), JStr(""), JNum(0)}

DelayResponses == Responses(DelayObjs \cup OtherBodies, {NonJson, DelayFull})

\* ------------------------------------------- list comprehensions, **item
RECURSIVE SetToSeq(_)
SetToSeq(S) ==
    IF S = {} THEN <<>>
    ELSE LET x == CHOOSE y \in S : TRUE IN <<x>> \o SetToSeq(S \ {x})

\* `for item in res_json`: a list yields its items, a dict its keys, a str
\* its characters (each again a str); None and numbers are not iterable.
Iterate(j) ==
    CASE j.t = "arr" -> Ok(j.xs)
      [] j.t = "obj" -> Ok(SetToSeq({JStr(k) : k \in DOMAIN j.f}))
      [] j.t = "str" -> Ok(IF j.s = "" THEN <<>> ELSE <<JStr(j.s)>>)
      [] OTHER -> Raise(Exc("TypeError"))

\* `**item`: only a mapping can be spread into keyword arguments.
Spread(item) == IF item.t = "obj" THEN Ok(item.f) ELSE Raise(Exc("TypeError"))

\* [Model(**item) for item in xs], from item i on: the first item that
\* fails raises, and the list built so far is dropped with it.
RECURSIVE BuildFrom(_, _, _, _)
BuildFrom(types, xs, i, acc) ==
    IF i > Len(xs) THEN Ok(acc)
    ELSE LET kw == Spread(xs[i]) IN
         IF ~kw.ok THEN kw
         ELSE LET m == Construct(types, kw.val) IN
              IF ~m.ok THEN m
              ELSE BuildFrom(types, xs, i + 1, Append(acc, m.val))

\* The comprehension as it would be if an item that fails ended the loop
\* and the entries built so far were returned.
RECURSIVE BuildPartialFrom(_, _, _, _)
BuildPartialFrom(types, xs, i, acc) ==
    IF i > Len(xs) THEN Ok(acc)
    ELSE LET kw == Spread(xs[i]) IN
         IF ~kw.ok THEN Ok(acc)
         ELSE LET m == Construct(types, kw.val) IN
              IF ~m.ok THEN Ok(acc)
              ELSE BuildPartialFrom(types, xs, i + 1, Append(acc, m.val))

BuildListPartial(types, j) ==
    LET it == Iterate(j) IN
    IF ~it.ok THEN it ELSE BuildPartialFrom(types, it.val, 1, <<>>)

\* The comprehension as it would be if each entry were put in front of the
\* ones built before it.
RECURSIVE BuildReversedFrom(_, _, _, _)
BuildReversedFrom(types, xs, i, acc) ==
    IF i > Len(xs) THEN Ok(acc)
    ELSE LET kw == Spread(xs[i]) IN
         IF ~kw.ok THEN kw
         ELSE LET m == Construct(types, kw.val) IN
              IF ~m.ok THEN m
              ELSE BuildReversedFrom(types, xs, i + 1, <<m.val>> \o acc)

BuildListReversed(types, j) ==
    LET it == Iterate(j) IN
    IF ~it.ok THEN it ELSE BuildReversedFrom(types, it.val, 1, <<>>)

BuildList(types, j) ==
    LET it == Iterate(j) IN
    IF ~it.ok THEN it ELSE BuildFrom(types, it.val, 1, <<>>)

\* Sequences of up to n elements of S.
SeqsUpTo(S, n) == UNION {[1..k -> S] : k \in 0..n}

\* ------------------------------------------------- get_eyeball_coverage
EyeballCoverageResult ==
    [agent_city_code |-> "str", eye_city_name |-> "str", eye_country_name |-> "str",
     org_name |-> "str", asn |-> "str", delay |-> "float"]

EyeballUrl(city) ==
    Lit("http://localhost:8000/looking-glass/eyeball/coverage")
        \o QueryLit("?", "city") \o city

EyeballTry(city, r, urlOk) ==
    LET f == Fetch(EyeballUrl(city), r, urlOk) IN
    IF ~f.res.ok THEN f
    ELSE [sent |-> f.sent, res |-> BuildList(EyeballCoverageResult, f.res.val)]

EyeballExcept(s, e, city) ==
    IF e.cls = "HTTPStatusError" THEN
        IF e.code[1] = 404 THEN
            RaisedErr(s, ToolError("NotFound", "No eyeball coverage data found for city",
                                   <<>>, <<city>>, <<>>))
        ELSE IF e.code[1] = 400 THEN
            RaisedErr(s, ToolError("BadRequest", "Invalid request. Please verify city code",
                                   <<>>, <<city>>, <<>>))
        ELSE
            RaisedErr(s, ToolError("ServiceError", "HTTP error: Failed to query eyeball coverage for",
                                   e.code, <<city>>, <<>>))
    ELSE IF e.cls = "RequestError" THEN
        RaisedErr(s, ToolError("TransportError",
                               "Connection error: Could not reach eyeball coverage service.",
                               <<>>, <<>>, <<e>>))
    ELSE IF e.cls = "ValidationError" THEN
        RaisedErr(s, ToolError("ShapeError", "Invalid response format.", <<>>, <<>>, <<e>>))
    ELSE IF e.cls \in ExceptionClasses THEN
        RaisedErr(s, ToolError("Unexpected", "Unexpected error occurred:", <<>>, <<>>, <<e>>))
    ELSE Escaped(s, e)

get_eyeball_coverage(city, r, urlOk) ==
    LET b == EyeballTry(city, r, urlOk) IN
    IF b.res.ok THEN Returned(b.sent, b.res.val)
    ELSE EyeballExcept(b.sent, b.res.exc, city)

\* Items of a /eyeball/coverage answer: two well-formed ones, one with a key
\* the model does not declare, one lacking a key, one with a number where a
\* string belongs, and one that is no object.
EyeGood(n) ==
    [agent_city_code |-> JStr("HKG"), eye_city_name |-> JStr("Hong Kong"),
     eye_country_name |-> JStr("China"), org_name |-> JStr("ISP"),
     asn |-> JStr(IF n = 1 THEN "AS1" ELSE "AS2"), delay |-> JNum(n)]

WithKey(f, key, v) == [k \in DOMAIN f \cup {key} |-> IF k = key THEN v ELSE f[k]]

Without(f, key) == [k \in DOMAIN f \ {key} |-> f[k]]

EyeItems ==
    {JObj(EyeGood(1)), JObj(EyeGood(2)), JObj(WithKey(EyeGood(1), "note", JStr("x"))),
     JObj(Without(EyeGood(1), "asn")), JObj(WithKey(EyeGood(1), "asn", JNum(1))), JNull}

EmptyObj == JObj([k \in {} |-> JNull])

EyeballResponses ==
    Responses({JArr(xs) : xs \in SeqsUpTo(EyeItems, MaxItems)}
                  \cup OtherBodies \cup {EmptyObj, JObj(EyeGood(1))},
              {NonJson, JArr(<<JObj(EyeGood(1))>>)})

\* ----------------------------------------------------- execute_zga_test
ZGATestResult ==
    [via_public_internet_delay |-> "str", via_zga_delay |-> "str",
     target |-> "str", improvement_percentage |-> "str"]

ZgaUrl(city) ==
    Lit("http://localhost:8000/looking-glass/zga/test") \o QueryLit("?", "city") \o city

ZgaTry(city, r, urlOk) ==
    LET f == Fetch(ZgaUrl(city), r, urlOk) IN
    IF ~f.res.ok THEN f
    ELSE [sent |-> f.sent, res |-> BuildList(ZGATestResult, f.res.val)]

ZgaExcept(s, e) ==
    IF e.cls = "HTTPStatusError" THEN
        IF e.code[1] = 404 THEN
            RaisedErr(s, ToolError("NotFound", "Route not found.", <<>>, <<>>, <<>>))
        ELSE IF e.code[1] = 400 THEN
            RaisedErr(s, ToolError("BadRequest", "Invalid request.", <<>>, <<>>, <<>>))
        ELSE
            RaisedErr(s, ToolError("ServiceError", "HTTP error: Failed to query latency.",
                                   e.code, <<>>, <<>>))
    ELSE IF e.cls = "RequestError" THEN
        RaisedErr(s, ToolError("TransportError", "Connection error: Could not reach latency service.",
                               <<>>, <<>>, <<e>>))
    ELSE IF e.cls = "ValidationError" THEN
        RaisedErr(s, ToolError("ShapeError", "Invalid response format.", <<>>, <<>>, <<e>>))
    ELSE IF e.cls \in ExceptionClasses THEN
        RaisedErr(s, ToolError("Unexpected", "Unexpected error occurred:", <<>>, <<>>, <<e>>))
    ELSE Escaped(s, e)

execute_zga_test(city, r, urlOk) ==
    LET b == ZgaTry(city, r, urlOk) IN
    IF b.res.ok THEN Returned(b.sent, b.res.val)
    ELSE ZgaExcept(b.sent, b.res.exc)

ZgaGood(n) ==
    [via_public_internet_delay |-> JStr("120ms"), via_zga_delay |-> JStr("80ms"),
     target |-> JStr(IF n = 1 THEN "LAX" ELSE "FRA"), improvement_percentage |-> JStr("33%")]

ZgaItems ==
    {JObj(ZgaGood(1)), JObj(ZgaGood(2)), JObj(WithKey(ZgaGood(1), "note", JStr("x"))),
     JObj(Without(ZgaGood(1), "target")), JObj(WithKey(ZgaGood(1), "target", JNum(1))), JNull}

ZgaResponses ==
    Responses({JArr(xs) : xs \in SeqsUpTo(ZgaItems, MaxItems)}
                  \cup OtherBodies \cup {EmptyObj, JObj(ZgaGood(1))},
              {NonJson, JArr(<<JObj(ZgaGood(1))>>)})

\* ----------------------------------------------- execute_router_explore
RouterExploreResult == [explore_type |-> "explore_type", result |-> "str"]

\* The front end admits only these values for the Literal parameter.
ExploreTypes == {Lit("ping"), Lit("mtr"), Lit("bgp")}

RouterUrl(explore_type, datacenter, target_ip_or_domain) ==
    Lit("http://localhost:8000/looking-glass/router/explore")
        \o QueryLit("?", "datacenter") \o datacenter
        \o QueryLit("&", "explore_type") \o explore_type
        \o QueryLit("&", "target_ip_or_domain") \o target_ip_or_domain

RouterTry(explore_type, datacenter, target_ip_or_domain, r, urlOk) ==
    LET f == Fetch(RouterUrl(explore_type, datacenter, target_ip_or_domain), r, urlOk) IN
    IF ~f.res.ok THEN f
    ELSE LET kw == Spread(f.res.val) IN
         IF ~kw.ok THEN [sent |-> f.sent, res |-> kw]
         ELSE [sent |-> f.sent, res |-> Construct(RouterExploreResult, kw.val)]

\* The only except clause: `except Exception`.
RouterExcept(s, e) ==
    IF e.cls \in ExceptionClasses THEN
        RaisedErr(s, ToolError("Unexpected", "Unexpected error occurred:", <<>>, <<>>, <<e>>))
    ELSE Escaped(s, e)

execute_router_explore(explore_type, datacenter, target_ip_or_domain, r, urlOk) ==
    LET b == RouterTry(explore_type, datacenter, target_ip_or_domain, r, urlOk) IN
    IF b.res.ok THEN Returned(b.sent, b.res.val)
    ELSE RouterExcept(b.sent, b.res.exc)

RouterGood(ty) == [explore_type |-> JStr(ty), result |-> JStr("64 bytes from 1.1.1.1")]

RouterObjs ==
    {JObj(RouterGood("ping")), JObj(RouterGood("mtr")), JObj(RouterGood("trace")),
     JObj(Without(RouterGood("ping"), "result")), JObj(Without(RouterGood("ping"), "explore_type")),
     JObj(WithKey(RouterGood("ping"), "result", JNum(7))), EmptyObj}

RouterResponses ==
    Responses(RouterObjs \cup OtherBodies, {NonJson, JNull, JObj(RouterGood("ping"))})

\* -------------------------------------- get_zenlayer_internal_city_code
CityResult ==
    [city_code_on_zenlayer |-> "str", city_name |-> "str", city_name_en |-> "str",
     country_name |-> "str", country_name_en |-> "str"]

\* The key of res_json each field of CityResult is read from.
CityResultKey ==
    [city_code_on_zenlayer |-> "city_code", city_name |-> "city_name",
     city_name_en |-> "city_name_en", country_name |-> "country_name",
     country_name_en |-> "country_name_en"]

CityUrl(city_name_en) ==
    Lit("http://localhost:8000/looking-glass/city")
        \o QueryLit("?", "city_name_en") \o city_name_en

CityNotFound ==
    ToolError("NotFound",
              "Sorry, the city you queried could not be found. Please check if the city name is correct",
              <<>>, <<>>, <<>>)

CityTry(city_name_en, r, urlOk) ==
    LET f == Fetch(CityUrl(city_name_en), r, urlOk) IN
    IF ~f.res.ok THEN f
    ELSE IF Falsy(f.res.val) THEN
        [sent |-> f.sent, res |-> Raise([cls |-> "ToolError", code |-> <<>>, te |-> CityNotFound])]
    ELSE LET kw == Subscripts(f.res.val, CityResultKey) IN
         IF ~kw.ok THEN [sent |-> f.sent, res |-> kw]
         ELSE [sent |-> f.sent, res |-> Construct(CityResult, kw.val)]

\* The except clauses of get_zenlayer_internal_city_code as they would be
\* without `except ToolError as te: raise te`.
CityExceptRewrap(s, e) ==
    IF e.cls \in ExceptionClasses THEN
        RaisedErr(s, ToolError("Unexpected", "Unexpected error occurred:", <<>>, <<>>, <<e>>))
    ELSE Escaped(s, e)

\* `except ToolError as te: raise te`, then `except Exception`.
CityExcept(s, e) ==
    IF e.cls = "ToolError" THEN RaisedErr(s, e.te)
    ELSE IF e.cls \in ExceptionClasses THEN
        RaisedErr(s, ToolError("Unexpected", "Unexpected error occurred:", <<>>, <<>>, <<e>>))
    ELSE Escaped(s, e)

get_zenlayer_internal_city_code(city_name_en, r, urlOk) ==
    LET b == CityTry(city_name_en, r, urlOk) IN
    IF b.res.ok THEN Returned(b.sent, b.res.val)
    ELSE CityExcept(b.sent, b.res.exc)

CityKeys == {CityResultKey[k] : k \in DOMAIN CityResultKey}

CityText ==
    [city_code |-> "HKG", city_name |-> "Xianggang", city_name_en |-> "Hong Kong",
     country_name |-> "Zhongguo", country_name_en |-> "China"]

CityFull == JObj([k \in CityKeys |-> JStr(CityText[k])])

CityObjs ==
    {JObj([k \in S |-> JStr(CityText[k])]) : S \in SUBSET CityKeys}
        \cup {JObj([k \in CityKeys |-> IF k = n THEN JNum(7) ELSE JStr(CityText[k])]) :
                  n \in CityKeys}

CityResponses == Responses(CityObjs \cup OtherBodies, {NonJson, JNull, CityFull})

\* ------------------------------------------------ invocations in progress
\* A query: a tool and the caller's arguments.
Query(name, a) == [tool |-> name, args |-> a]

NoQuery == Query("none", <<>>)

NoOutcome == [sent |-> <<>>, returned |-> <<>>, raised |-> <<>>, escaped |-> <<>>]

\* The frame of an invocation: where it stands, its arguments, its outcome.
\* A handler keeps everything else in local variables of the same frame.
IdleCall == [stage |-> "idle", q |-> NoQuery, out |-> NoOutcome]

\* The URL the tool's f-string gives for a query.
Url(q) ==
    CASE q.tool = "get_city_delay" -> DelayUrl(q.args[1], q.args[2])
      [] q.tool = "get_eyeball_coverage" -> EyeballUrl(q.args[1])
      [] q.tool = "execute_zga_test" -> ZgaUrl(q.args[1])
      [] q.tool = "execute_router_explore" -> RouterUrl(q.args[1], q.args[2], q.args[3])
      [] OTHER -> CityUrl(q.args[1])

\* The tool's handler run on a query, the backend answering r.
Handler(q, r) ==
    CASE q.tool = "get_city_delay" -> get_city_delay(q.args[1], q.args[2], r, TRUE)
      [] q.tool = "get_eyeball_coverage" -> get_eyeball_coverage(q.args[1], r, TRUE)
      [] q.tool = "execute_zga_test" -> execute_zga_test(q.args[1], r, TRUE)
      [] q.tool = "execute_router_explore" ->
            execute_router_explore(q.args[1], q.args[2], q.args[3], r, TRUE)
      [] OTHER -> get_zenlayer_internal_city_code(q.args[1], r, TRUE)

\* Does the handler reach httpx.get, or does validation end it before?
Requests(q) == Handler(q, TransportFail).sent # <<>>

\* slog.info calls of a handler before its request (line 362) and after
\* response.json() has succeeded (lines 75, 160, 234, 311, 369).
LogsBefore(q) == IF q.tool = "get_zenlayer_internal_city_code" THEN 1 ELSE 0

LogsAfter(q, r) == IF Fetch(Url(q), r, TRUE).res.ok THEN 1 ELSE 0

Log(n, k) == IF n + k > MaxLog THEN MaxLog ELSE n + k

\* The queries of the concurrent callers: a delay query, a delay query that
\* fails validation, and one query of every other tool.
ConcQueries ==
    {Query("get_city_delay", <<Lit("a") \o Lit("a") \o Lit("b"), Lit("b") \o Lit("b") \o Lit("a")>>),
     Query("get_city_delay", <<Lit("a") \o Lit("a") \o Lit("b"), Lit("a") \o Lit("a") \o Lit("b")>>),
     Query("get_eyeball_coverage", <<Lit("a")>>),
     Query("execute_zga_test", <<Lit("a")>>),
     Query("execute_router_explore", <<Lit("ping"), Lit("a"), Lit("a")>>),
     Query("get_zenlayer_internal_city_code", <<Lit("a")>>)}

ConcUrls == {Url(q) : q \in {x \in ConcQueries : Requests(x)}}

\* What each endpoint of the mock backend returns for a match.
GoodBody(q) ==
    CASE q.tool = "get_city_delay" -> DelayFull
      [] q.tool = "get_eyeball_coverage" -> JArr(<<JObj(EyeGood(1))>>)
      [] q.tool = "execute_zga_test" -> JArr(<<JObj(ZgaGood(1))>>)
      [] q.tool = "execute_router_explore" -> JObj(RouterGood("ping"))
      [] OTHER -> CityFull

\* A backend whose answers do not change: a function of the request, which
\* finds some requests (200 and the endpoint's payload) and not the others.
Backends ==
    {[u \in ConcUrls |->
        IF u \in found THEN Http(200, GoodBody(CHOOSE q \in ConcQueries : Url(q) = u))
        ELSE Http(404, JNull)] : found \in SUBSET ConcUrls}

NoBackend == [u \in {} |-> NoResp]

\* httpx.get as every call would be served if replies were read from one
\* connection shared by all invocations.
MineShared(i, msgs) == msgs

\* httpx.get opens a connection of its own for the call: an invocation reads
\* the reply to its own request only.
Mine(i, msgs) == {m \in msgs : m.conn = i}

\* ----------------------------------------------------------------- state
InitSeq ==
    /\ pc = "idle"
    /\ tool = "none"
    /\ args = <<>>
    /\ resp = NoResp
    /\ sent = <<>>
    /\ returned = <<>>
    /\ raised = <<>>
    /\ escaped = <<>>

\* No invocation in progress, nothing in flight, nothing logged.
InitCalls ==
    /\ calls = [i \in 1..NumCalls |-> IdleCall]
    /\ requests = {}
    /\ replies = {}
    /\ logged = 0

\* One invocation at a time, the backend's answer drawn per invocation.
Init ==
    /\ InitSeq
    /\ InitCalls
    /\ backend = NoBackend

\* One invocation of a tool, start to end.
Invoke(name, a, r, o) ==
    /\ pc' = "done"
    /\ tool' = name
    /\ args' = a
    /\ resp' = r
    /\ sent' = o.sent
    /\ returned' = o.returned
    /\ raised' = o.raised
    /\ escaped' = o.escaped
    /\ UNCHANGED concVars

GetCityDelay ==
    /\ pc = "idle"
    /\ \E from_city \in CityStrs, to_city \in CityStrs :
        \E urlOk \in UrlChoices(DelayUrl(from_city, to_city)) :
            \E r \in Answers(get_city_delay(from_city, to_city, TransportFail, urlOk),
                             DelayResponses) :
                Invoke("get_city_delay", <<from_city, to_city>>, r,
                       get_city_delay(from_city, to_city, r, urlOk))

GetEyeballCoverage ==
    /\ pc = "idle"
    /\ \E city \in FreeStrs :
        \E urlOk \in UrlChoices(EyeballUrl(city)) :
            \E r \in Answers(get_eyeball_coverage(city, TransportFail, urlOk),
                             EyeballResponses) :
                Invoke("get_eyeball_coverage", <<city>>, r,
                       get_eyeball_coverage(city, r, urlOk))

ExecuteZgaTest ==
    /\ pc = "idle"
    /\ \E city \in FreeStrs :
        \E urlOk \in UrlChoices(ZgaUrl(city)) :
            \E r \in Answers(execute_zga_test(city, TransportFail, urlOk), ZgaResponses) :
                Invoke("execute_zga_test", <<city>>, r, execute_zga_test(city, r, urlOk))

ExecuteRouterExplore ==
    /\ pc = "idle"
    /\ \E explore_type \in ExploreTypes, datacenter \in FreeStrs, target \in FreeStrs :
        \E urlOk \in UrlChoices(RouterUrl(explore_type, datacenter, target)) :
            \E r \in Answers(execute_router_explore(explore_type, datacenter, target,
                                                    TransportFail, urlOk),
                             RouterResponses) :
                Invoke("execute_router_explore", <<explore_type, datacenter, target>>, r,
                       execute_router_explore(explore_type, datacenter, target, r, urlOk))

GetZenlayerInternalCityCode ==
    /\ pc = "idle"
    /\ \E city_name_en \in FreeStrs :
        \E urlOk \in UrlChoices(CityUrl(city_name_en)) :
            \E r \in Answers(get_zenlayer_internal_city_code(city_name_en, TransportFail, urlOk),
                             CityResponses) :
                Invoke("get_zenlayer_internal_city_code", <<city_name_en>>, r,
                       get_zenlayer_internal_city_code(city_name_en, r, urlOk))

\* The front end hands the outcome to the caller unchanged and takes the
\* next call.
Deliver ==
    /\ pc = "done"
    /\ pc' = "idle"
    /\ tool' = "none"
    /\ args' = <<>>
    /\ resp' = NoResp
    /\ sent' = <<>>
    /\ returned' = <<>>
    /\ raised' = <<>>
    /\ escaped' = <<>>
    /\ UNCHANGED concVars

Next ==
    \/ GetCityDelay
    \/ GetEyeballCoverage
    \/ ExecuteZgaTest
    \/ ExecuteRouterExplore
    \/ GetZenlayerInternalCityCode
    \/ Deliver

Spec == Init /\ [][Next]_vars

\* ---------------------------------------------- concurrent invocations
InitConc ==
    /\ InitSeq
    /\ InitCalls
    /\ backend \in Backends

\* A caller invokes a tool: the handler validates its arguments and either
\* ends there or builds its URL and sends its request.
Call(i) ==
    /\ calls[i].stage = "idle"
    /\ \E q \in ConcQueries :
        /\ logged' = Log(logged, LogsBefore(q))
        /\ IF Requests(q)
           THEN /\ calls' = [calls EXCEPT ![i] = [stage |-> "waiting", q |-> q, out |-> NoOutcome]]
                /\ requests' = requests \cup {[conn |-> i, url |-> Url(q)]}
           ELSE /\ calls' = [calls EXCEPT ![i] =
                                [stage |-> "done", q |-> q, out |-> Handler(q, TransportFail)]]
                /\ requests' = requests
    /\ UNCHANGED <<backend, replies>>
    /\ UNCHANGED seqVars

\* The backend answers one request in flight.
Answer ==
    /\ \E m \in requests :
        /\ requests' = requests \ {m}
        /\ replies' = replies \cup {[conn |-> m.conn, r |-> backend[m.url]]}
    /\ UNCHANGED <<backend, calls, logged>>
    /\ UNCHANGED seqVars

\* httpx.get returns in a waiting invocation, and the handler runs to its
\* end: status check, decoding, logging, model construction, except clauses.
Receive(i) ==
    /\ calls[i].stage = "waiting"
    /\ \E m \in Mine(i, replies) :
        /\ replies' = replies \ {m}
        /\ calls' = [calls EXCEPT ![i] =
                        [stage |-> "done", q |-> calls[i].q, out |-> Handler(calls[i].q, m.r)]]
        /\ logged' = Log(logged, LogsAfter(calls[i].q, m.r))
    /\ UNCHANGED <<backend, requests>>
    /\ UNCHANGED seqVars

\* The outcome goes back to the caller; the slot serves the next invocation.
Return(i) ==
    /\ calls[i].stage = "done"
    /\ calls' = [calls EXCEPT ![i] = IdleCall]
    /\ UNCHANGED <<backend, requests, replies, logged>>
    /\ UNCHANGED seqVars

CallAny == \E i \in 1..NumCalls : Call(i)

ReceiveAny == \E i \in 1..NumCalls : Receive(i)

ReturnAny == \E i \in 1..NumCalls : Return(i)

NextConc ==
    \/ CallAny
    \/ Answer
    \/ ReceiveAny
    \/ ReturnAny

SpecConc == InitConc /\ [][NextConc]_vars

\* ---------------------------------------------------------------- claims
Done == pc = "done"

ErrorKind(k) == raised # <<>> /\ raised[1].kind = k

Answered == resp.net = "ok"

Success2xx == Answered /\ resp.status >= 200 /\ resp.status <= 299

\* Exactly three ASCII letters.
IsCode(s) == Len(s) = CodeLen /\ \A i \in 1..Len(s) : s[i] \in Letters

\* C1: one invocation of any tool issues at most one backend request, and
\* none when it ends in an InvalidInput error.
C1_AtMostOneRequest ==
    Done =>
        /\ Len(sent) <= 1
        /\ ErrorKind("InvalidInput") => sent = <<>>

\* A failed exchange was tried once and the invocation ended in an error.
C1_Witness ==
    /\ Done
    /\ resp = TransportFail
    /\ Len(sent) = 1
    /\ raised # <<>>

ListTools == {"get_eyeball_coverage", "execute_zga_test"}

ResultTypes ==
    [get_city_delay |-> CityDelayModel,
     get_eyeball_coverage |-> EyeballCoverageResult,
     execute_zga_test |-> ZGATestResult,
     execute_router_explore |-> RouterExploreResult,
     get_zenlayer_internal_city_code |-> CityResult]

\* v has exactly the fields the result type declares, each of its type.
IsModel(types, v) ==
    /\ DOMAIN v = DOMAIN types
    /\ \A k \in DOMAIN types :
          /\ v[k].ty = (IF types[k] = "float" THEN "float" ELSE "str")
          /\ types[k] = "explore_type" => v[k].s \in {"ping", "mtr", "bgp"}

FullyTyped(t, v) ==
    IF t \in ListTools THEN \A i \in 1..Len(v) : IsModel(ResultTypes[t], v[i])
    ELSE IsModel(ResultTypes[t], v)

\* C2: every invocation ends either in one fully-typed result or in one
\* ToolError; nothing else escapes, and a result is returned only when the
\* backend answered 2xx with JSON and, for the list tools, every item of the
\* backend sequence was built (no partial list).
C2_ResultOrOneToolError ==
    Done =>
        /\ escaped = <<>>
        /\ Len(returned) + Len(raised) = 1
        /\ returned # <<>> =>
              /\ Success2xx
              /\ resp.body.t # "nonjson"
              /\ FullyTyped(tool, returned[1])
              /\ (tool \in ListTools /\ resp.body.t = "arr")
                     => Len(returned[1]) = Len(resp.body.xs)

\* A coverage answer whose first item is well-formed and whose second is
\* not ended in an error and no list.
C2_Witness ==
    /\ Done
    /\ tool = "get_eyeball_coverage"
    /\ Success2xx
    /\ resp.body.t = "arr"
    /\ Len(resp.body.xs) = 2
    /\ resp.body.xs[1] = JObj(EyeGood(1))
    /\ resp.body.xs[2] = JNull
    /\ raised # <<>>
    /\ returned = <<>>

\* C3: get_city_delay fails with InvalidInput, without a backend request,
\* whenever one of its two strings is not exactly three ASCII letters.
C3_NonCodeRejected ==
    (Done /\ tool = "get_city_delay" /\ (~IsCode(args[1]) \/ ~IsCode(args[2])))
        => (ErrorKind("InvalidInput") /\ sent = <<>>)

\* C4: for two well-formed codes, get_city_delay fails with InvalidInput and
\* sends nothing when their upper-cased forms are equal, and passes
\* validation when they differ.
C4_SameCityRejected ==
    (Done /\ tool = "get_city_delay" /\ IsCode(args[1]) /\ IsCode(args[2]))
        => IF Upper(args[1]) = Upper(args[2])
           THEN ErrorKind("InvalidInput") /\ sent = <<>>
           ELSE ~ErrorKind("InvalidInput")

ClassifiedTools == {"get_city_delay", "get_eyeball_coverage", "execute_zga_test"}

CatchAllTools == {"execute_router_explore", "get_zenlayer_internal_city_code"}

\* An object that has every field of the result type, each of its JSON type.
WellFormed(types, item) ==
    /\ item.t = "obj"
    /\ DOMAIN types \subseteq DOMAIN item.f
    /\ \A k \in DOMAIN types :
          /\ item.f[k].t = (IF types[k] = "float" THEN "num" ELSE "str")
          /\ types[k] = "explore_type" => item.f[k].s \in {"ping", "mtr", "bgp"}

\* The payload reaches the result type's validation and fails it: an object
\* with every key read from it but a value of the wrong type, or, for the
\* list tools, a sequence whose first item that is not well-formed is an
\* object.
FailsValidation(t, body) ==
    IF t \in ListTools THEN
        /\ body.t = "arr"
        /\ \E i \in 1..Len(body.xs) :
              /\ body.xs[i].t = "obj"
              /\ ~WellFormed(ResultTypes[t], body.xs[i])
              /\ \A j \in 1..(i - 1) : WellFormed(ResultTypes[t], body.xs[j])
    ELSE
        /\ body.t = "obj"
        /\ DOMAIN ResultTypes[t] \subseteq DOMAIN body.f
        /\ ~WellFormed(ResultTypes[t], body)

\* The four recognized causes of a backend failure and the kind each gets.
CausesClassified ==
    /\ resp = TransportFail => ErrorKind("TransportError")
    /\ (Answered /\ resp.status = 404) => ErrorKind("NotFound")
    /\ (Answered /\ resp.status = 400) => ErrorKind("BadRequest")
    /\ (Answered /\ ~Success2xx /\ resp.status \notin {400, 404})
           => (ErrorKind("ServiceError") /\ raised[1].codes = <<resp.status>>)

C6_CatchAllToolsClassified ==
    (Done /\ tool \in CatchAllTools) => CausesClassified

\* C7: get_city_delay, given two different well-formed codes, fails with
\* ShapeError when the 2xx JSON object lacks one of the four keys.
C7_MissingKeyShapeError ==
    (Done /\ tool = "get_city_delay" /\ IsCode(args[1]) /\ IsCode(args[2])
          /\ Upper(args[1]) # Upper(args[2])
          /\ Success2xx /\ resp.body.t = "obj"
          /\ \E k \in DelayKeys : k \notin DOMAIN resp.body.f)
        => ErrorKind("ShapeError")

\* A payload that is null or empty.
NullOrEmpty(j) ==
    \/ j.t = "null"
    \/ j.t = "obj" /\ DOMAIN j.f = {}
    \/ j.t = "arr" /\ j.xs = <<>>
    \/ j.t = "str" /\ j.s = ""

\* C8: for get_zenlayer_internal_city_code a 2xx answer whose payload is
\* null or empty ends in the NotFound error raised inside the try block,
\* unchanged, and in no CityResult.
C8_CityEmptyNotFound ==
    (Done /\ tool = "get_zenlayer_internal_city_code" /\ Success2xx
          /\ NullOrEmpty(resp.body))
        => (raised = <<CityNotFound>> /\ returned = <<>>)

\* The backend answered null to a city lookup and NotFound was raised.
C8_Witness ==
    /\ Done
    /\ tool = "get_zenlayer_internal_city_code"
    /\ Success2xx
    /\ resp.body.t = "null"
    /\ raised = <<CityNotFound>>

\* C9: for execute_router_explore a 2xx answer whose payload is null or
\* empty ends in a NotFound error.
C9_RouterEmptyNotFound ==
    (Done /\ tool = "execute_router_explore" /\ Success2xx /\ NullOrEmpty(resp.body))
        => ErrorKind("NotFound")

\* The entry built from a JSON value carries that value.
Carries(v, j) ==
    IF j.t = "num" THEN v.ty = "float" /\ v.n = j.n
    ELSE v.ty = "str" /\ v.s = j.s

\* C10: for get_eyeball_coverage and execute_zga_test a 2xx sequence of
\* well-formed objects is returned as a list of the same length and order,
\* entry i carrying the field values of item i; an empty sequence gives an
\* empty list and no error.
C10_ListMappedItemwise ==
    (Done /\ tool \in ListTools /\ Success2xx /\ resp.body.t = "arr"
          /\ \A i \in 1..Len(resp.body.xs) : WellFormed(ResultTypes[tool], resp.body.xs[i]))
        => /\ raised = <<>>
           /\ Len(returned) = 1
           /\ Len(returned[1]) = Len(resp.body.xs)
           /\ \A i \in 1..Len(resp.body.xs) :
                 /\ DOMAIN returned[1][i] = DOMAIN ResultTypes[tool]
                 /\ \A k \in DOMAIN ResultTypes[tool] :
                       Carries(returned[1][i][k], resp.body.xs[i].f[k])

\* Two different well-formed coverage items came back as two entries.
C10_Witness ==
    /\ Done
    /\ tool = "get_eyeball_coverage"
    /\ Success2xx
    /\ resp.body.t = "arr"
    /\ Len(resp.body.xs) = 2
    /\ WellFormed(EyeballCoverageResult, resp.body.xs[1])
    /\ WellFormed(EyeballCoverageResult, resp.body.xs[2])
    /\ resp.body.xs[1].f.asn # resp.body.xs[2].f.asn
    /\ Len(returned) = 1
    /\ Len(returned[1]) = 2

\* The free-form string parameters of the current invocation.
FreeFormArgs ==
    CASE tool = "execute_router_explore" -> {args[2], args[3]}
      [] tool \in ListTools \cup {"get_zenlayer_internal_city_code"} -> {args[1]}
      [] OTHER -> {}

\* C11: an empty string for a required free-form field (eyeball city, zga
\* city, router datacenter or target, city name) fails with InvalidInput
\* before any backend request.
C11_EmptyFieldRejected ==
    (Done /\ <<>> \in FreeFormArgs) => (ErrorKind("InvalidInput") /\ sent = <<>>)

\* The endpoint and the parameter names of each tool, with the caller's
\* values of the current invocation.
Endpoint ==
    CASE tool = "get_city_delay" -> Lit("http://localhost:8000/looking-glass/city/delay")
      [] tool = "get_eyeball_coverage" ->
            Lit("http://localhost:8000/looking-glass/eyeball/coverage")
      [] tool = "execute_zga_test" -> Lit("http://localhost:8000/looking-glass/zga/test")
      [] tool = "execute_router_explore" ->
            Lit("http://localhost:8000/looking-glass/router/explore")
      [] OTHER -> Lit("http://localhost:8000/looking-glass/city")

CallerParams ==
    CASE tool = "get_city_delay" ->
            {<<Lit("from_city"), args[1]>>, <<Lit("to_city"), args[2]>>}
      [] tool \in ListTools -> {<<Lit("city"), args[1]>>}
      [] tool = "execute_router_explore" ->
            {<<Lit("explore_type"), args[1]>>, <<Lit("datacenter"), args[2]>>,
             <<Lit("target_ip_or_domain"), args[3]>>}
      [] OTHER -> {<<Lit("city_name_en"), args[1]>>}

\* C12: whatever a free-form parameter value contains ('&', '=', '#', '?',
\* a space), the request the backend receives has the tool's endpoint path
\* and exactly the tool's parameter names, each bound to the caller's value.
C12_ParamsCarriedIntact ==
    (Done /\ tool # "get_city_delay" /\ sent # <<>>) =>
        \A i \in 1..Len(sent) :
            /\ RequestSeen(sent[i]).path = Endpoint
            /\ RequestSeen(sent[i]).params = CallerParams

\* C14: for a delay query with two distinct three-letter codes, the
\* from_city and to_city values of the outgoing request are the upper-cased
\* forms of the caller's codes.
C14_CodesSentUpperCased ==
    (Done /\ tool = "get_city_delay" /\ IsCode(args[1]) /\ IsCode(args[2])
          /\ Upper(args[1]) # Upper(args[2]) /\ sent # <<>>) =>
        \A i \in 1..Len(sent) :
            RequestSeen(sent[i]).params =
                {<<Lit("from_city"), Upper(args[1])>>, <<Lit("to_city"), Upper(args[2])>>}

\* The outcome of a query run alone against the backend.
Alone(q) == IF Requests(q) THEN Handler(q, backend[Url(q)]) ELSE Handler(q, TransportFail)

\* C13: against a backend whose answers do not change, every invocation
\* that has ended, whatever ran before it or runs beside it, has the outcome
\* its query has when run alone.
C13_OutcomeOfOwnInputs ==
    \A i \in 1..NumCalls :
        calls[i].stage = "done" => calls[i].out = Alone(calls[i].q)

\* Two invocations with different outcomes overlap: one has ended with a
\* result while the other, sent earlier or later, was answered an error and
\* has not read it yet, and records have been logged.
C13_Witness ==
    \E i, j \in 1..NumCalls :
        /\ i # j
        /\ calls[i].stage = "done" /\ calls[i].out.returned # <<>>
        /\ calls[j].stage = "waiting"
        /\ \E m \in replies : m.conn = j /\ m.r.status = 404
        /\ logged > 0

====
